---- MODULE Spec2Model ----
(***************************************************************************)
(* Model of build_final_tables.py: the pipeline that rebuilds nine derived *)
(* tables from sales, purchases and vendor_invoice in one SQLite database. *)
(*                                                                         *)
(* Base tables are sequences of rows (rowid order); derived tables are     *)
(* bags of rows.  A numeric SQL value is a pair <<n, d>>: the rational n/d *)
(* in lowest terms when d > 0, and SQL NULL when d = 0.  SQLite's REAL     *)
(* arithmetic is modelled exactly (no rounding); a division by zero gives  *)
(* NULL, as SQLite's does.  Vendor names are numbered in collation order.  *)
(***************************************************************************)
EXTENDS Integers, Sequences, FiniteSets, Bags, TLC

VARIABLES
  have,            \* names of the tables in sqlite_master
  sales,           \* rows of sales
  purchases,       \* rows of purchases
  vendor_invoice,  \* rows of vendor_invoice
  target,          \* args.target
  tbl,             \* derived table name -> bag of rows
  indexes,         \* names of the indexes that exist
  exported,        \* names of the CSV files in outputs/
  analyzed,        \* whether ANALYZE has collected statistics
  pc,              \* the call main makes next, or "done" / "failed"
  failedAt,        \* the call that raised, "" when none
  error,           \* the table names in require_tables' RuntimeError
  run,             \* how many times main has been started
  rebuilt,         \* derived tables created so far in this run
  zeroDiv,         \* division sites evaluated with a zero denominator in this run
  prevTbl,         \* tbl as the previous completed run left it
  have0            \* sqlite_master's tables when this run started

vars == <<have, sales, purchases, vendor_invoice, target, tbl, indexes, exported,
          analyzed, pc, failedAt, error, run, rebuilt, zeroDiv, prevTbl, have0>>

----------------------------------------------------------------------------
(* Bounds of the model *)

MaxSales == 1
MaxPurchases == 2
MaxInvoices == 1
MaxRows == 1
MaxRuns == 2

InventoryIds == {1, 2}
VendorNumbers == {1, 2}
VendorNames == {1, 2}
Brands == {1, 2}
SoldInventoryIds == {1}
SoldBrands == {1}
InvoicedVendors == {1}
PurchaseQuantities == {1}
SalesAmounts == {<<1, 3>>, <<0, 3>>, <<1, -5>>, <<1, 0>>}   \* <<SalesQuantity, SalesDollars>>
PurchasePrices == {0, 2}
Freights == {-1, 0, 4}
DefaultTarget == <<7, 20>>
Targets == {DefaultTarget, <<1, 1>>, <<3, 2>>}

----------------------------------------------------------------------------
(* SQL values and arithmetic *)

NULL == <<0, 0>>

IsNull(v) == v[2] = 0

Abs(n) == IF n < 0 THEN -n ELSE n

RECURSIVE GCD(_, _)
GCD(a, b) == IF b = 0 THEN a ELSE GCD(b, a % b)

Norm(n, d) ==
  LET g == GCD(Abs(n), Abs(d))
      s == IF d < 0 THEN -1 ELSE 1
  IN <<(s * n) \div g, (s * d) \div g>>

Rat(n) == <<n, 1>>

Add(a, b) == IF IsNull(a) \/ IsNull(b) THEN NULL
             ELSE Norm(a[1] * b[2] + b[1] * a[2], a[2] * b[2])

Sub(a, b) == IF IsNull(a) \/ IsNull(b) THEN NULL
             ELSE Norm(a[1] * b[2] - b[1] * a[2], a[2] * b[2])

Mul(a, b) == IF IsNull(a) \/ IsNull(b) THEN NULL
             ELSE Norm(a[1] * b[1], a[2] * b[2])

\* a / b on REAL operands: NULL when an operand is NULL or b is zero
Div(a, b) == IF IsNull(a) \/ IsNull(b) \/ b[1] = 0 THEN NULL
             ELSE Norm(a[1] * b[2], a[2] * b[1])

\* a comparison in a CASE WHEN: a NULL operand makes the condition not true
Gt(a, b) == ~IsNull(a) /\ ~IsNull(b) /\ a[1] * b[2] > b[1] * a[2]

Lt(a, b) == Gt(b, a)

Le(a, b) == ~IsNull(a) /\ ~IsNull(b) /\ a[1] * b[2] <= b[1] * a[2]

Coalesce0(v) == IF IsNull(v) THEN Rat(0) ELSE v

\* SUM(f) over the rows S: NULL values are skipped, and the sum of none is NULL
RECURSIVE SumNonNull(_, _)
SumNonNull(f, S) ==
  IF S = {} THEN Rat(0)
  ELSE LET x == CHOOSE y \in S : TRUE
       IN Add(f[x], SumNonNull(f, S \ {x}))

SqlSum(f, S) ==
  LET N == {x \in S : ~IsNull(f[x])}
  IN IF N = {} THEN NULL ELSE SumNonNull(f, N)

\* MAX over a non-empty set of integers
MaxOf(S) == CHOOSE m \in S : \A x \in S : x <= m

\* the rows of a bag, one element <<row, i>> per copy
Expand(B) == UNION {{<<r, i>> : i \in 1..B[r]} : r \in DOMAIN B}

\* the bag holding f[x] once for every x of S
MkBag(f, S) ==
  LET img == {f[x] : x \in S}
  IN [r \in img |-> Cardinality({x \in S : f[x] = r})]

----------------------------------------------------------------------------
(* build_vendor_sales_summary *)

\* sales s JOIN purchases p ON p.InventoryId = s.InventoryId: pairs <<row of s, row of p>>
SalesJoinPurchases(s, p) ==
  {x \in (1..Len(s)) \X (1..Len(p)) : p[x[2]].InventoryId = s[x[1]].InventoryId}

\* GROUP BY p.VendorNumber, p.VendorName, s.Brand
SalesKey(s, p, x) == <<p[x[2]].VendorNumber, p[x[2]].VendorName, s[x[1]].Brand>>

SalesAggRow(s, k, G) ==
  [VendorNumber |-> k[1], VendorName |-> k[2], Brand |-> k[3],
   TotalSalesQuantity |-> SqlSum([x \in G |-> Rat(s[x[1]].SalesQuantity)], G),
   TotalSalesDollars  |-> SqlSum([x \in G |-> Rat(s[x[1]].SalesDollars)], G)]

SalesAggOf(s, p, J) ==
  {SalesAggRow(s, k, {x \in J : SalesKey(s, p, x) = k}) : k \in {SalesKey(s, p, x) : x \in J}}

sales_agg(s, p) == SalesAggOf(s, p, SalesJoinPurchases(s, p))

\* GROUP BY p.VendorNumber, p.Brand
BrandKey(p, i) == <<p[i].VendorNumber, p[i].Brand>>

BrandPurchRow(p, k, G) ==
  [VendorNumber |-> k[1], Brand |-> k[2],
   BrandPurchaseQuantity |-> SqlSum([i \in G |-> Rat(p[i].Quantity)], G),
   BrandPurchaseDollars  |-> SqlSum([i \in G |-> Rat(p[i].PurchasePrice * p[i].Quantity)], G)]

brand_purch(p) ==
  {BrandPurchRow(p, k, {i \in 1..Len(p) : BrandKey(p, i) = k})
     : k \in {BrandKey(p, i) : i \in 1..Len(p)}}

VendorTotRow(v, G) ==
  [VendorNumber |-> v,
   VendorBrandPurchDollars |-> SqlSum([b \in G |-> b.BrandPurchaseDollars], G)]

bp_vendor_tot(bp) ==
  {VendorTotRow(v, {b \in bp : b.VendorNumber = v}) : v \in {b.VendorNumber : b \in bp}}

InvoiceRow(inv, v, G) ==
  [VendorNumber |-> v,
   InvoicePurchaseQuantity |-> SqlSum([i \in G |-> Rat(inv[i].Quantity)], G),
   InvoicePurchaseDollars  |-> SqlSum([i \in G |-> Rat(inv[i].Dollars)], G),
   Freight                 |-> SqlSum([i \in G |-> Rat(inv[i].Freight)], G)]

vi(inv) ==
  {InvoiceRow(inv, v, {i \in 1..Len(inv) : inv[i].VendorNumber = v})
     : v \in {inv[i].VendorNumber : i \in 1..Len(inv)}}

\* the one value a LEFT JOIN on a unique key brings, NULL when no row matches
Lookup(M, col) == IF M = {} THEN NULL ELSE (CHOOSE m \in M : TRUE)[col]

\* line 87: the WHEN of the freight allocation
FreightGuard(freight, vendorDollars) ==
  Gt(Coalesce0(freight), Rat(0)) /\ Gt(Coalesce0(vendorDollars), Rat(0))

\* FreightCase without the brand's share: every brand is charged the vendor's whole freight
FreightCaseUnshared(freight, brandDollars, vendorDollars) ==
  IF FreightGuard(freight, vendorDollars) THEN freight ELSE Rat(0)

\* lines 86-90: the CASE that allocates the vendor's freight to a brand
FreightCase(freight, brandDollars, vendorDollars) ==
  IF FreightGuard(freight, vendorDollars)
  THEN Div(Mul(Mul(freight, Coalesce0(brandDollars)), Rat(1)), vendorDollars)
  ELSE Rat(0)

\* lines 99-101 and 119-121: 100.0 * profit / sales, guarded by sales > 0
MarginCase(salesDollars, profit) ==
  IF Gt(salesDollars, Rat(0))
  THEN Div(Mul(Rat(100), profit), salesDollars)
  ELSE Rat(0)

\* lines 78-94: one row of joined, from the sales_agg row a and the rows the LEFT JOINs match
JoinedRow(a, bpm, tm, vm) ==
  [VendorNumber |-> a.VendorNumber, VendorName |-> a.VendorName, Brand |-> a.Brand,
   TotalSalesQuantity    |-> Coalesce0(a.TotalSalesQuantity),
   TotalSalesDollars     |-> Coalesce0(a.TotalSalesDollars),
   TotalPurchaseQuantity |-> Coalesce0(Lookup(bpm, "BrandPurchaseQuantity")),
   TotalPurchaseDollars  |-> Coalesce0(Lookup(bpm, "BrandPurchaseDollars")),
   FreightCost           |-> FreightCase(Lookup(vm, "Freight"),
                                         Lookup(bpm, "BrandPurchaseDollars"),
                                         Lookup(tm, "VendorBrandPurchDollars"))]

JoinedOf(sa, bp, t, v) ==
  MkBag([a \in sa |-> JoinedRow(a,
            {b \in bp : b.VendorNumber = a.VendorNumber /\ b.Brand = a.Brand},
            {x \in t : x.VendorNumber = a.VendorNumber},
            {x \in v : x.VendorNumber = a.VendorNumber})], sa)

joined(s, p, inv) == JoinedOf(sales_agg(s, p), brand_purch(p), bp_vendor_tot(brand_purch(p)), vi(inv))

\* lines 96-102: the row of joined with GrossProfit gp and ProfitMargin added
SummaryRow(r, gp) ==
  [VendorNumber |-> r.VendorNumber, VendorName |-> r.VendorName, Brand |-> r.Brand,
   TotalSalesQuantity |-> r.TotalSalesQuantity, TotalSalesDollars |-> r.TotalSalesDollars,
   TotalPurchaseQuantity |-> r.TotalPurchaseQuantity,
   TotalPurchaseDollars |-> r.TotalPurchaseDollars,
   FreightCost |-> r.FreightCost,
   GrossProfit |-> gp,
   ProfitMargin |-> MarginCase(r.TotalSalesDollars, gp)]

\* TotalSalesDollars - TotalPurchaseDollars - FreightCost
Profit(r) == Sub(Sub(r.TotalSalesDollars, r.TotalPurchaseDollars), r.FreightCost)

SummaryOf(J) == MkBag([x \in J |-> SummaryRow(x[1], Profit(x[1]))], J)

vendor_sales_summary_q(s, p, inv) == SummaryOf(Expand(joined(s, p, inv)))

----------------------------------------------------------------------------
(* build_vendor_rollup *)

\* SUM(c) over the rows G of a derived table
Col(G, c) == SqlSum([x \in G |-> x[1][c]], G)

RollupRow(v, G, ts, tp, fc) ==
  [VendorNumber |-> v,
   VendorName |-> MaxOf({x[1].VendorName : x \in G}),
   TotalSalesDol_in_summary |-> ts,
   TotalSalesQty |-> Col(G, "TotalSalesQuantity"),
   TotalPurchaseDol |-> tp,
   TotalPurchaseQty |-> Col(G, "TotalPurchaseQuantity"),
   FreightCost |-> fc,
   GrossProfit |-> SqlSum([x \in G |-> Profit(x[1])], G),
   ProfitMargin |-> MarginCase(ts, Sub(Sub(ts, tp), fc)),
   BrandCount |-> Rat(Cardinality({x[1].Brand : x \in G}))]

RollupGroup(v, G) ==
  RollupRow(v, G, Col(G, "TotalSalesDollars"), Col(G, "TotalPurchaseDollars"), Col(G, "FreightCost"))

RollupOf(R, V) == MkBag([v \in V |-> RollupGroup(v, {x \in R : x[1].VendorNumber = v})], V)

\* the VendorNumber values of the rows R
VendorsOf(R) == {x[1].VendorNumber : x \in R}

vendor_summary_by_vendor_q(vss) == RollupOf(Expand(vss), VendorsOf(Expand(vss)))

----------------------------------------------------------------------------
(* build_spend_and_risk *)

SpendRow(inv, v, G, S) ==
  [VendorNumber |-> v,
   TotalPurchaseDollars |-> SqlSum([i \in G |-> Rat(inv[i].Dollars)], G),
   TotalSalesDollars |-> Coalesce0(Col(S, "TotalSalesDollars"))]

SpendOf(inv, R, V) ==
  MkBag([v \in V |-> SpendRow(inv, v, {i \in 1..Len(inv) : inv[i].VendorNumber = v},
                              {x \in R : x[1].VendorNumber = v})], V)

spend_by_vendor_q(inv, vss) ==
  SpendOf(inv, Expand(vss), {inv[i].VendorNumber : i \in 1..Len(inv)})

\* SUM(CASE WHEN c < 0 THEN 1 ELSE 0 END)
NegCount(G, c) == SqlSum([x \in G |-> IF Lt(x[1][c], Rat(0)) THEN Rat(1) ELSE Rat(0)], G)

RiskRow(v, G) ==
  [VendorNumber |-> v,
   neg_SalesQty |-> NegCount(G, "TotalSalesQuantity"),
   neg_SalesDol |-> NegCount(G, "TotalSalesDollars"),
   neg_PurchQty |-> NegCount(G, "TotalPurchaseQuantity"),
   neg_PurchDol |-> NegCount(G, "TotalPurchaseDollars"),
   neg_Freight  |-> NegCount(G, "FreightCost")]

RiskOf(R, V) == MkBag([v \in V |-> RiskRow(v, {x \in R : x[1].VendorNumber = v})], V)

vendor_risk_flags_q(vss) == RiskOf(Expand(vss), VendorsOf(Expand(vss)))

----------------------------------------------------------------------------
(* build_brand_pricing *)

\* GROUP BY VendorNumber, VendorName, Brand
PricingKey(x) == <<x[1].VendorNumber, x[1].VendorName, x[1].Brand>>

PricingRow(k, G) ==
  [VendorNumber |-> k[1], VendorName |-> k[2], Brand |-> k[3],
   TotalSalesQuantity |-> Col(G, "TotalSalesQuantity"),
   TotalSalesDollars |-> Col(G, "TotalSalesDollars"),
   TotalPurchaseDollars |-> Col(G, "TotalPurchaseDollars"),
   FreightCost |-> Col(G, "FreightCost")]

PricingOf(R, K) == MkBag([k \in K |-> PricingRow(k, {x \in R : PricingKey(x) = k})], K)

brand_pricing_q(vss) == PricingOf(Expand(vss), {PricingKey(x) : x \in Expand(vss)})

----------------------------------------------------------------------------
(* build_brand_pricing_opps *)

\* (TotalSalesQuantity*1.0), the denominator of lines 176, 179 and 197
UnitsSold(r) == Mul(r.TotalSalesQuantity, Rat(1))

\* lines 175-177
AvgSalesPrice(r) ==
  IF Gt(r.TotalSalesDollars, Rat(0))
  THEN Div(r.TotalSalesDollars, UnitsSold(r))
  ELSE NULL

\* lines 178-180 (a column of the CTE b that the final SELECT does not keep)
AvgPurchasePrice(r) ==
  IF Gt(r.TotalPurchaseDollars, Rat(0))
  THEN Div(r.TotalPurchaseDollars, UnitsSold(r))
  ELSE NULL

\* (TotalPurchaseDollars + FreightCost)
CostBasis(r) == Add(r.TotalPurchaseDollars, r.FreightCost)

\* lines 185-188
RequiredSalesDollars(r, tm) ==
  IF Le(CostBasis(r), Rat(0)) THEN Rat(0)
  ELSE Div(Mul(CostBasis(r), Rat(1)), Sub(Rat(1), tm))

\* UpsideDollars without the CASE: the gap itself, of either sign
UpsideUnclamped(required, salesDollars) == Sub(required, salesDollars)

\* lines 193-194
UpsideDollars(required, salesDollars) ==
  IF Gt(required, salesDollars) THEN Sub(required, salesDollars) ELSE Rat(0)

\* lines 195-199
NeededPriceDeltaPerUnit(required, r) ==
  IF Gt(r.TotalSalesQuantity, Rat(0))
  THEN (IF Gt(required, r.TotalSalesDollars)
        THEN Div(Sub(required, r.TotalSalesDollars), UnitsSold(r))
        ELSE Rat(0))
  ELSE NULL

\* lines 202-208
OpportunityRow(r, tm, required) ==
  [VendorNumber |-> r.VendorNumber, VendorName |-> r.VendorName, Brand |-> r.Brand,
   TotalSalesQuantity |-> r.TotalSalesQuantity, TotalSalesDollars |-> r.TotalSalesDollars,
   TotalPurchaseDollars |-> r.TotalPurchaseDollars, FreightCost |-> r.FreightCost,
   AvgSalesPrice |-> AvgSalesPrice(r),
   TargetMargin |-> tm,
   RequiredSalesDollars |-> required,
   UpsideDollars |-> UpsideDollars(required, r.TotalSalesDollars),
   NeededPriceDeltaPerUnit |-> NeededPriceDeltaPerUnit(required, r)]

OpportunitiesOf(R, tm) ==
  MkBag([x \in R |-> OpportunityRow(x[1], tm, RequiredSalesDollars(x[1], tm))], R)

brand_pricing_opportunities_q(bp, tm) == OpportunitiesOf(Expand(bp), tm)

----------------------------------------------------------------------------
(* build_finals *)

FinalVendorRow(v) ==
  [VendorNumber |-> v.VendorNumber, VendorName |-> v.VendorName,
   TotalSalesDollars |-> v.TotalSalesDol_in_summary,
   TotalSalesQuantity |-> v.TotalSalesQty,
   TotalPurchaseDollars |-> v.TotalPurchaseDol,
   TotalPurchaseQuantity |-> v.TotalPurchaseQty,
   FreightCost |-> v.FreightCost,
   GrossProfit |-> v.GrossProfit,
   CurrentMargin |-> v.ProfitMargin,
   TargetMargin |-> NULL, RequiredSalesDollars |-> NULL,
   UpsideDollars |-> NULL, NeededPriceDeltaPerUnit |-> NULL]

FinalVendorOf(R) == MkBag([x \in R |-> FinalVendorRow(x[1])], R)

final_vendor_q(vsv) == FinalVendorOf(Expand(vsv))

\* the rows of bpo that ON bpo.VendorNumber = s.VendorNumber AND bpo.Brand = s.Brand matches
OppMatches(x, B) == {y \in B : y[1].VendorNumber = x[1].VendorNumber /\ y[1].Brand = x[1].Brand}

\* the pairs <<s, <<bpo>>>> of one row of s, and <<s, <<>>>> when no row of bpo matches
LeftJoinRows(x, M) == IF M = {} THEN {<<x, <<>>>>} ELSE {<<x, <<y>>>> : y \in M}

\* vendor_sales_summary s LEFT JOIN brand_pricing_opportunities bpo
FinalBrandJoin(S, B) == UNION {LeftJoinRows(x, OppMatches(x, B)) : x \in S}

\* a column of the joined bpo row, NULL when the LEFT JOIN matched none
OppCol(j, c) == IF j[2] = <<>> THEN NULL ELSE j[2][1][1][c]

FinalBrandRow(s, j) ==
  [VendorNumber |-> s.VendorNumber, VendorName |-> s.VendorName, Brand |-> s.Brand,
   TotalSalesDollars |-> s.TotalSalesDollars, TotalSalesQuantity |-> s.TotalSalesQuantity,
   TotalPurchaseDollars |-> s.TotalPurchaseDollars,
   TotalPurchaseQuantity |-> s.TotalPurchaseQuantity,
   FreightCost |-> s.FreightCost,
   GrossProfit |-> s.GrossProfit,
   CurrentMargin |-> s.ProfitMargin,
   TargetMargin |-> OppCol(j, "TargetMargin"),
   RequiredSalesDollars |-> OppCol(j, "RequiredSalesDollars"),
   UpsideDollars |-> OppCol(j, "UpsideDollars"),
   NeededPriceDeltaPerUnit |-> OppCol(j, "NeededPriceDeltaPerUnit")]

FinalBrandOf(J) == MkBag([j \in J |-> FinalBrandRow(j[1][1], j)], J)

final_brand_q(vss, bpo) == FinalBrandOf(FinalBrandJoin(Expand(vss), Expand(bpo)))

\* lines 246-249 and 252-255: a row of final_all, with its Level and its Brand
FinalAllRow(r, level, brand) ==
  [Level |-> level, VendorNumber |-> r.VendorNumber, VendorName |-> r.VendorName,
   Brand |-> brand,
   TotalSalesDollars |-> r.TotalSalesDollars, TotalSalesQuantity |-> r.TotalSalesQuantity,
   TotalPurchaseDollars |-> r.TotalPurchaseDollars,
   TotalPurchaseQuantity |-> r.TotalPurchaseQuantity,
   FreightCost |-> r.FreightCost, GrossProfit |-> r.GrossProfit,
   CurrentMargin |-> r.CurrentMargin, BrandCount |-> NULL,
   TargetMargin |-> r.TargetMargin, RequiredSalesDollars |-> r.RequiredSalesDollars,
   UpsideDollars |-> r.UpsideDollars,
   NeededPriceDeltaPerUnit |-> r.NeededPriceDeltaPerUnit]

VendorArm(R) == MkBag([x \in R |-> FinalAllRow(x[1], "vendor", NULL)], R)

BrandArm(R) == MkBag([x \in R |-> FinalAllRow(x[1], "brand", Rat(x[1].Brand))], R)

\* final_all with UNION in place of UNION ALL: equal rows are kept once
FinalAllDistinct(fv, fb) == SetToBag(BagToSet(VendorArm(Expand(fv)) (+) BrandArm(Expand(fb))))

\* UNION ALL keeps every row of both arms
final_all_q(fv, fb) == VendorArm(Expand(fv)) (+) BrandArm(Expand(fb))

----------------------------------------------------------------------------
(* The database and the statements main's calls execute *)

BaseTables == {"purchases", "vendor_invoice", "sales"}

\* line 290: the names require_tables is given, in order
RequiredNames == <<"purchases", "vendor_invoice", "sales">>

\* lines 262-272: the tables export_csvs reads, in order
ExportNames == <<"vendor_sales_summary", "vendor_summary_by_vendor", "spend_by_vendor",
                 "vendor_risk_flags", "brand_pricing", "brand_pricing_opportunities",
                 "final_vendor", "final_brand", "final_all">>

DerivedTables == {ExportNames[i] : i \in 1..Len(ExportNames)}

\* the tables named in the FROM and JOIN clauses of the CREATE TABLE ... AS of table t
Reads(t) ==
  CASE t = "vendor_sales_summary"        -> {"sales", "purchases", "vendor_invoice"}
    [] t = "vendor_summary_by_vendor"    -> {"vendor_sales_summary"}
    [] t = "spend_by_vendor"             -> {"vendor_invoice", "vendor_sales_summary"}
    [] t = "vendor_risk_flags"           -> {"vendor_sales_summary"}
    [] t = "brand_pricing"               -> {"vendor_sales_summary"}
    [] t = "brand_pricing_opportunities" -> {"brand_pricing"}
    [] t = "final_vendor"                -> {"vendor_summary_by_vendor"}
    [] t = "final_brand"                 -> {"vendor_sales_summary", "brand_pricing_opportunities"}
    [] t = "final_all"                   -> {"final_vendor", "final_brand"}

\* the rows the CREATE TABLE ... AS of table t selects, from the tables as they are in T
Query(t, T) ==
  CASE t = "vendor_sales_summary"        -> vendor_sales_summary_q(sales, purchases, vendor_invoice)
    [] t = "vendor_summary_by_vendor"    -> vendor_summary_by_vendor_q(T["vendor_sales_summary"])
    [] t = "spend_by_vendor"             -> spend_by_vendor_q(vendor_invoice, T["vendor_sales_summary"])
    [] t = "vendor_risk_flags"           -> vendor_risk_flags_q(T["vendor_sales_summary"])
    [] t = "brand_pricing"               -> brand_pricing_q(T["vendor_sales_summary"])
    [] t = "brand_pricing_opportunities" -> brand_pricing_opportunities_q(T["brand_pricing"], target)
    [] t = "final_vendor"                -> final_vendor_q(T["vendor_summary_by_vendor"])
    [] t = "final_brand"                 -> final_brand_q(T["vendor_sales_summary"],
                                                          T["brand_pricing_opportunities"])
    [] t = "final_all"                   -> final_all_q(T["final_vendor"], T["final_brand"])

Drop(t) == [op |-> "drop", t |-> t]

Create(t) == [op |-> "create", t |-> t]

Rebuild(t) == <<Drop(t), Create(t)>>

\* the statements each call of main executes, in order
Script(call) ==
  CASE call = "ensure_indexes" ->
         <<[op |-> "index", t |-> "sales",          name |-> "idx_sales_inventory"],
           [op |-> "index", t |-> "purchases",      name |-> "idx_purchases_inventory"],
           [op |-> "index", t |-> "purchases",      name |-> "idx_purchases_vendor"],
           [op |-> "index", t |-> "vendor_invoice", name |-> "idx_vi_vendor"]>>
    [] call = "build_vendor_sales_summary" -> Rebuild("vendor_sales_summary")
    [] call = "build_vendor_rollup"        -> Rebuild("vendor_summary_by_vendor")
    [] call = "build_spend_and_risk"       -> Rebuild("spend_by_vendor") \o Rebuild("vendor_risk_flags")
    [] call = "build_brand_pricing"        -> Rebuild("brand_pricing")
    [] call = "build_brand_pricing_opps"   -> Rebuild("brand_pricing_opportunities")
    [] call = "build_finals"               -> Rebuild("final_vendor") \o Rebuild("final_brand")
                                                \o Rebuild("final_all")
    [] call = "export_csvs"                -> [i \in 1..Len(ExportNames) |->
                                                 [op |-> "export", t |-> ExportNames[i]]]
    [] call = "analyze"                    -> <<[op |-> "analyze", t |-> ""]>>

\* the tables a call drops and creates
Owns(call) == {Script(call)[i].t : i \in {j \in 1..Len(Script(call)) : Script(call)[j].op = "create"}}

\* main with build_brand_pricing_opps called before build_brand_pricing
MainOrderSwapped == <<"require_tables", "ensure_indexes", "build_vendor_sales_summary",
                      "build_vendor_rollup", "build_spend_and_risk", "build_brand_pricing_opps",
                      "build_brand_pricing", "build_finals", "export_csvs", "analyze">>

\* lines 290-299: the calls of main's try block, in order
MainOrder == <<"require_tables", "ensure_indexes", "build_vendor_sales_summary",
               "build_vendor_rollup", "build_spend_and_risk", "build_brand_pricing",
               "build_brand_pricing_opps", "build_finals", "export_csvs", "analyze">>

\* the call that follows call in main, "done" after the last
After(call) ==
  LET i == CHOOSE j \in 1..Len(MainOrder) : MainOrder[j] = call
  IN IF i = Len(MainOrder) THEN "done" ELSE MainOrder[i + 1]

----------------------------------------------------------------------------
(* Divisions evaluated with a zero denominator *)

DivByZero(a, b) == ~IsNull(a) /\ ~IsNull(b) /\ b[1] = 0

\* the divisions of vendor_sales_summary's SELECT that meet a zero denominator
SummaryZeroDivisions(R, t, v) ==
  {"FreightCost" : x \in {y \in R :
      /\ FreightGuard(Lookup({z \in v : z.VendorNumber = y[1].VendorNumber}, "Freight"),
                      Lookup({z \in t : z.VendorNumber = y[1].VendorNumber}, "VendorBrandPurchDollars"))
      /\ DivByZero(Rat(1), Lookup({z \in t : z.VendorNumber = y[1].VendorNumber},
                                  "VendorBrandPurchDollars"))}}
  \cup {"ProfitMargin" : x \in {y \in R :
      Gt(y[1].TotalSalesDollars, Rat(0)) /\ DivByZero(Rat(1), y[1].TotalSalesDollars)}}

\* the division of vendor_summary_by_vendor's SELECT
RollupZeroDivisions(R) ==
  {"VendorProfitMargin" : x \in {y \in R :
      /\ Gt(y[1].TotalSalesDol_in_summary, Rat(0))
      /\ DivByZero(Rat(1), y[1].TotalSalesDol_in_summary)}}

\* the divisions of brand_pricing_opportunities' SELECT, over the rows R of brand_pricing
OpportunityZeroDivisions(R, tm) ==
  {"AvgSalesPrice" : x \in {y \in R :
      Gt(y[1].TotalSalesDollars, Rat(0)) /\ DivByZero(y[1].TotalSalesDollars, UnitsSold(y[1]))}}
  \cup {"RequiredSalesDollars" : x \in {y \in R :
      ~Le(CostBasis(y[1]), Rat(0)) /\ DivByZero(CostBasis(y[1]), Sub(Rat(1), tm))}}
  \cup {"NeededPriceDeltaPerUnit" : x \in {y \in R :
      /\ Gt(y[1].TotalSalesQuantity, Rat(0))
      /\ Gt(RequiredSalesDollars(y[1], tm), y[1].TotalSalesDollars)
      /\ DivByZero(Rat(1), UnitsSold(y[1]))}}

\* the division sites that met a zero denominator while table t of T was created
ZeroDivisions(t, T) ==
  CASE t = "vendor_sales_summary" ->
         SummaryZeroDivisions(Expand(T[t]), bp_vendor_tot(brand_purch(purchases)), vi(vendor_invoice))
    [] t = "vendor_summary_by_vendor" -> RollupZeroDivisions(Expand(T[t]))
    [] t = "brand_pricing_opportunities" -> OpportunityZeroDivisions(Expand(T["brand_pricing"]), target)
    [] OTHER -> {}

----------------------------------------------------------------------------
(* Executing statements *)

\* the part of the state the statements read and write
Cur == [have |-> have, tbl |-> tbl, indexes |-> indexes, exported |-> exported,
        analyzed |-> analyzed, rebuilt |-> rebuilt, zeroDiv |-> zeroDiv, ok |-> TRUE]

\* CREATE TABLE t AS SELECT ...: the table holds the rows selected
Created(st, t, rows) ==
  [st EXCEPT !.have = @ \cup {t}, !.tbl[t] = rows, !.rebuilt = @ \cup {t}]

\* the divisions the SELECT of t evaluated are added to those seen
Divided(st, t) == [st EXCEPT !.zeroDiv = @ \cup ZeroDivisions(t, st.tbl)]

\* Exec with the DROP left out and CREATE TABLE IF NOT EXISTS followed by INSERT ... SELECT:
\* the rows selected are added to those the table holds
ExecAppending(st, stmt) ==
  CASE stmt.op = "drop" -> st
    [] stmt.op = "create" ->
         IF ~(Reads(stmt.t) \subseteq st.have)
         THEN [st EXCEPT !.ok = FALSE]
         ELSE Divided(Created(st, stmt.t, st.tbl[stmt.t] (+) Query(stmt.t, st.tbl)), stmt.t)
    [] stmt.op = "index" ->
         IF stmt.t \notin st.have THEN [st EXCEPT !.ok = FALSE]
         ELSE [st EXCEPT !.indexes = @ \cup {stmt.name}]
    [] stmt.op = "export" ->
         IF stmt.t \notin st.have THEN [st EXCEPT !.ok = FALSE]
         ELSE [st EXCEPT !.exported = @ \cup {stmt.t}]
    [] stmt.op = "analyze" -> [st EXCEPT !.analyzed = TRUE]

\* one statement: it raises (ok = FALSE, nothing changed) when a table it names is absent
\* or the table it creates exists
Exec(st, stmt) ==
  CASE stmt.op = "drop" ->
         [st EXCEPT !.have = @ \ {stmt.t}, !.tbl[stmt.t] = EmptyBag,
                    !.rebuilt = @ \ {stmt.t}]
    [] stmt.op = "create" ->
         IF stmt.t \in st.have \/ ~(Reads(stmt.t) \subseteq st.have)
         THEN [st EXCEPT !.ok = FALSE]
         ELSE Divided(Created(st, stmt.t, Query(stmt.t, st.tbl)), stmt.t)
    [] stmt.op = "index" ->
         IF stmt.t \notin st.have THEN [st EXCEPT !.ok = FALSE]
         ELSE [st EXCEPT !.indexes = @ \cup {stmt.name}]
    [] stmt.op = "export" ->
         IF stmt.t \notin st.have THEN [st EXCEPT !.ok = FALSE]
         ELSE [st EXCEPT !.exported = @ \cup {stmt.t}]
    [] stmt.op = "analyze" -> [st EXCEPT !.analyzed = TRUE]

\* statements i..k of stmts, stopping at the first that raises
RECURSIVE ExecFrom(_, _, _, _)
ExecFrom(stmts, i, k, st) ==
  IF i > k \/ ~st.ok THEN st ELSE ExecFrom(stmts, i + 1, k, Exec(st, stmts[i]))

\* the state a call leaves: it returned when all its statements ran and none raised, and
\* otherwise its exception ends main
Leaves(call, st, returned) ==
  /\ have' = st.have
  /\ tbl' = st.tbl
  /\ indexes' = st.indexes
  /\ exported' = st.exported
  /\ analyzed' = st.analyzed
  /\ rebuilt' = st.rebuilt
  /\ zeroDiv' = st.zeroDiv
  /\ pc' = IF returned THEN After(call) ELSE "failed"
  /\ failedAt' = IF returned THEN "" ELSE call
  /\ UNCHANGED <<sales, purchases, vendor_invoice, target, error, run, prevTbl, have0>>

Ended(call, k, st) == Leaves(call, st, st.ok /\ k = Len(Script(call)))

\* a call of main that runs the first k statements of its script
Outcome(call, k) == Ended(call, k, ExecFrom(Script(call), 1, k, Cur))

\* a call of main whose statements all run
Returns(call) == Outcome(call, Len(Script(call)))

----------------------------------------------------------------------------
(* main *)

\* Missing that stops at the first name it does not find
MissingFirst(names, h) ==
  IF SelectSeq(names, LAMBDA n : n \notin h) = <<>> THEN <<>>
  ELSE <<Head(SelectSeq(names, LAMBDA n : n \notin h))>>

\* lines 26-28: the names of the list that are not tables of the database
Missing(names, h) == SelectSeq(names, LAMBDA n : n \notin h)

RequireTables ==
  /\ pc = "require_tables"
  /\ IF Missing(RequiredNames, have) # <<>>
     THEN /\ error' = Missing(RequiredNames, have)
          /\ pc' = "failed"
          /\ failedAt' = "require_tables"
     ELSE /\ pc' = After("require_tables")
          /\ UNCHANGED <<error, failedAt>>
  /\ UNCHANGED <<have, sales, purchases, vendor_invoice, target, tbl, indexes, exported,
                 analyzed, run, rebuilt, zeroDiv, prevTbl, have0>>

EnsureIndexes ==
  /\ pc = "ensure_indexes"
  /\ Returns("ensure_indexes")

BuildVendorSalesSummary ==
  /\ pc = "build_vendor_sales_summary"
  /\ Returns("build_vendor_sales_summary")

BuildVendorRollup ==
  /\ pc = "build_vendor_rollup"
  /\ Returns("build_vendor_rollup")

BuildSpendAndRisk ==
  /\ pc = "build_spend_and_risk"
  /\ Returns("build_spend_and_risk")

BuildBrandPricing ==
  /\ pc = "build_brand_pricing"
  /\ Returns("build_brand_pricing")

BuildBrandPricingOpps ==
  /\ pc = "build_brand_pricing_opps"
  /\ Returns("build_brand_pricing_opps")

BuildFinals ==
  /\ pc = "build_finals"
  /\ Returns("build_finals")

ExportCsvs ==
  /\ pc = "export_csvs"
  /\ Returns("export_csvs")

Analyze ==
  /\ pc = "analyze"
  /\ Returns("analyze")

\* a statement of the current call raises sqlite3.Error (I/O error, locked or full
\* database): the statements before it have taken effect, it and the rest have not
StatementRaises ==
  /\ pc \in {MainOrder[i] : i \in 2..Len(MainOrder)}
  /\ \E k \in 0..(Len(Script(pc)) - 1) : Outcome(pc, k)

\* the script is started again on the database the completed run left
RunAgain ==
  /\ pc = "done"
  /\ run < MaxRuns
  /\ run' = run + 1
  /\ pc' = MainOrder[1]
  /\ prevTbl' = tbl
  /\ have0' = have
  /\ rebuilt' = {}
  /\ zeroDiv' = {}
  /\ error' = <<>>
  /\ UNCHANGED <<have, sales, purchases, vendor_invoice, target, tbl, indexes, exported,
                 analyzed, failedAt>>

----------------------------------------------------------------------------
(* Inputs *)

\* With at most one row of sales and one of vendor_invoice, every database is a
\* renaming of one whose sale has the first InventoryId and Brand and whose invoice the
\* first VendorNumber: purchases range over all of them.
SalesRows ==
  {[InventoryId |-> i, Brand |-> b, SalesQuantity |-> a[1], SalesDollars |-> a[2]]
     : i \in SoldInventoryIds, b \in SoldBrands, a \in SalesAmounts}

PurchaseRows ==
  [InventoryId : InventoryIds, VendorNumber : VendorNumbers, VendorName : VendorNames,
   Brand : Brands, Quantity : PurchaseQuantities, PurchasePrice : PurchasePrices]

InvoiceRows ==
  [VendorNumber : InvoicedVendors, Quantity : {1}, Dollars : {5}, Freight : Freights]

\* a number that orders the rows of purchases
PurchaseRank(r) ==
  ((((r.InventoryId * 8 + r.VendorNumber) * 8 + r.VendorName) * 8 + r.Brand) * 8
     + r.Quantity + 2) * 8 + r.PurchasePrice

\* the tables of at most max rows
TablesOf(rows, max) == UNION {[1..n -> rows] : n \in 0..max}

\* no query depends on the order of the rows of purchases: each bag of rows is taken in
\* one order only
PurchaseTables(max) ==
  {t \in TablesOf(PurchaseRows, max) :
     \A i \in 1..Len(t) : \A j \in i..Len(t) : PurchaseRank(t[i]) <= PurchaseRank(t[j])}

EmptyTables == [t \in DerivedTables |-> EmptyBag]

Start ==
  /\ tbl = EmptyTables
  /\ indexes = {}
  /\ exported = {}
  /\ analyzed = FALSE
  /\ pc = MainOrder[1]
  /\ failedAt = ""
  /\ error = <<>>
  /\ run = 1
  /\ rebuilt = {}
  /\ zeroDiv = {}
  /\ prevTbl = EmptyTables
  /\ have0 = have

\* a database holding any of the three base tables, each with at most one row
Init ==
  /\ have \in SUBSET BaseTables
  /\ sales \in (IF "sales" \in have THEN TablesOf(SalesRows, MaxSales) ELSE {<<>>})
  /\ purchases \in (IF "purchases" \in have THEN PurchaseTables(MaxRows) ELSE {<<>>})
  /\ vendor_invoice \in (IF "vendor_invoice" \in have THEN TablesOf(InvoiceRows, MaxInvoices)
                         ELSE {<<>>})
  /\ target \in {DefaultTarget}
  /\ Start

Next ==
  \/ RequireTables
  \/ EnsureIndexes
  \/ BuildVendorSalesSummary
  \/ BuildVendorRollup
  \/ BuildSpendAndRisk
  \/ BuildBrandPricing
  \/ BuildBrandPricingOpps
  \/ BuildFinals
  \/ ExportCsvs
  \/ Analyze
  \/ StatementRaises
  \/ RunAgain

Spec == Init /\ [][Next]_vars

\* a database holding the three base tables, started once, where no statement raises
InitData ==
  /\ have = BaseTables
  /\ sales \in TablesOf(SalesRows, MaxSales)
  /\ purchases \in PurchaseTables(MaxPurchases)
  /\ vendor_invoice \in TablesOf(InvoiceRows, MaxInvoices)
  /\ target \in Targets
  /\ Start

NextData ==
  \/ RequireTables
  \/ EnsureIndexes
  \/ BuildVendorSalesSummary
  \/ BuildVendorRollup
  \/ BuildSpendAndRisk
  \/ BuildBrandPricing
  \/ BuildBrandPricingOpps
  \/ BuildFinals
  \/ ExportCsvs
  \/ Analyze

SpecData == InitData /\ [][NextData]_vars

----------------------------------------------------------------------------
(* Properties *)

RECURSIVE SumInt(_, _)
SumInt(f, S) ==
  IF S = {} THEN 0
  ELSE LET x == CHOOSE y \in S : TRUE
       IN f[x] + SumInt(f, S \ {x})

\* the rows of vendor_sales_summary, and whether this run has built it
Summary == Expand(tbl["vendor_sales_summary"])

SummaryBuilt == "vendor_sales_summary" \in rebuilt

\* the vendor's total brand-purchase dollars: PurchasePrice * Quantity over its purchases rows
VendorPurchaseDollars(v) ==
  LET G == {i \in 1..Len(purchases) : purchases[i].VendorNumber = v}
  IN SumInt([i \in G |-> purchases[i].PurchasePrice * purchases[i].Quantity], G)

\* the vendor's total invoice Freight
VendorFreight(v) ==
  LET G == {i \in 1..Len(vendor_invoice) : vendor_invoice[i].VendorNumber = v}
  IN SumInt([i \in G |-> vendor_invoice[i].Freight], G)

\* the sum of column c over the vendor's rows of vendor_sales_summary, 0 when it has none
SummaryTotal(v, c) ==
  LET G == {x \in Summary : x[1].VendorNumber = v}
  IN SumNonNull([x \in G |-> x[1][c]], G)

\* C1 as stated: once vendor_sales_summary is built, the FreightCost of a vendor's rows
\* sums to the vendor's invoice Freight when its total brand-purchase dollars are > 0,
\* and to 0 when they are 0.
C1_FreightSumsToInvoice ==
  SummaryBuilt =>
    \A v \in VendorNumbers :
      SummaryTotal(v, "FreightCost") =
        (IF VendorPurchaseDollars(v) > 0 THEN Rat(VendorFreight(v)) ELSE Rat(0))

\* C1 as amended: once vendor_sales_summary is built, for a vendor whose invoice Freight
\* and total brand-purchase dollars are both > 0 the FreightCost of its rows sums to
\* Freight * (the TotalPurchaseDollars of those rows) / (its total brand-purchase
\* dollars), which is the Freight itself exactly when the rows carry all of the vendor's
\* purchase dollars once; for any other vendor every row has FreightCost 0.
C1_FreightShare ==
  SummaryBuilt =>
    \A v \in VendorNumbers :
      IF VendorFreight(v) > 0 /\ VendorPurchaseDollars(v) > 0
      THEN /\ SummaryTotal(v, "FreightCost") =
                Div(Mul(Rat(VendorFreight(v)), SummaryTotal(v, "TotalPurchaseDollars")),
                    Rat(VendorPurchaseDollars(v)))
           /\ (SummaryTotal(v, "FreightCost") = Rat(VendorFreight(v)))
                <=> (SummaryTotal(v, "TotalPurchaseDollars") = Rat(VendorPurchaseDollars(v)))
      ELSE \A x \in Summary : x[1].VendorNumber = v => x[1].FreightCost = Rat(0)

\* a vendor with Freight > 0 and purchase dollars > 0 whose rows carry a part of the
\* invoice Freight only, a purchased brand of the vendor having no row
C1_Witness ==
  /\ SummaryBuilt
  /\ \E v \in VendorNumbers :
       /\ VendorFreight(v) > 0
       /\ VendorPurchaseDollars(v) > 0
       /\ Gt(SummaryTotal(v, "FreightCost"), Rat(0))
       /\ Lt(SummaryTotal(v, "FreightCost"), Rat(VendorFreight(v)))

\* C2 as stated: once vendor_sales_summary is built, no two of its rows share VendorNumber
\* and Brand.
C2_OneRowPerVendorBrand ==
  SummaryBuilt =>
    \A x \in Summary : \A y \in Summary :
      (x[1].VendorNumber = y[1].VendorNumber /\ x[1].Brand = y[1].Brand) => x = y

\* the rows of brand_pricing_opportunities
Opportunities == Expand(tbl["brand_pricing_opportunities"])

\* C3: once brand_pricing_opportunities is built, UpsideDollars of every row is a number
\* >= 0: RequiredSalesDollars - TotalSalesDollars when that is positive, 0 otherwise
\* (also when RequiredSalesDollars is NULL), whatever the TargetMargin.
C3_UpsideNeverNegative ==
  "brand_pricing_opportunities" \in rebuilt =>
    \A x \in Opportunities :
      /\ Le(Rat(0), x[1].UpsideDollars)
      /\ x[1].UpsideDollars =
           (IF Gt(Sub(x[1].RequiredSalesDollars, x[1].TotalSalesDollars), Rat(0))
            THEN Sub(x[1].RequiredSalesDollars, x[1].TotalSalesDollars)
            ELSE Rat(0))

\* a row with a TargetMargin above 1, a negative RequiredSalesDollars and a positive upside
C3_Witness ==
  /\ "brand_pricing_opportunities" \in rebuilt
  /\ \E x \in Opportunities :
       /\ Gt(x[1].TargetMargin, Rat(1))
       /\ Lt(x[1].RequiredSalesDollars, Rat(0))
       /\ Gt(x[1].UpsideDollars, Rat(0))

\* C4: once final_all is built it has as many rows as final_vendor and final_brand
\* together, its 'vendor' rows have a NULL Brand and its 'brand' rows a NULL BrandCount.
C4_FinalAllIsUnion ==
  "final_all" \in rebuilt =>
    /\ BagCardinality(tbl["final_all"]) =
         BagCardinality(tbl["final_vendor"]) + BagCardinality(tbl["final_brand"])
    /\ \A r \in BagToSet(tbl["final_all"]) :
         /\ r.Level = "vendor" => IsNull(r.Brand)
         /\ r.Level = "brand" => IsNull(r.BrandCount)

\* final_all built from one vendor row and brand rows of which two are equal
C4_Witness ==
  /\ "final_all" \in rebuilt
  /\ BagCardinality(tbl["final_vendor"]) >= 1
  /\ \E r \in BagToSet(tbl["final_brand"]) : tbl["final_brand"][r] >= 2

\* C5: a run that completes after an earlier completed run on the same base tables and
\* TargetMargin leaves every derived table with the rows the earlier run left.
C5_SecondRunSameTables ==
  (pc = "done" /\ run >= 2) => (tbl = prevTbl /\ have = have0)

\* a second run completed on tables that are not empty
C5_Witness ==
  /\ pc = "done"
  /\ run = 2
  /\ BagCardinality(tbl["final_all"]) >= 2
  /\ BagCardinality(tbl["spend_by_vendor"]) >= 1

\* C6: when a base table is missing, main gets no further than require_tables, whose
\* error names every missing table once, and no index, derived table or file is made.
C6_MissingTablesFailFirst ==
  (BaseTables \ have # {}) =>
    /\ pc \in {"require_tables", "failed"}
    /\ pc = "failed" =>
         /\ failedAt = "require_tables"
         /\ {error[i] : i \in 1..Len(error)} = BaseTables \ have
         /\ Len(error) = Cardinality(BaseTables \ have)
    /\ indexes = {}
    /\ tbl = EmptyTables
    /\ have = have0
    /\ exported = {}

\* require_tables has raised an error naming two missing tables
C6_Witness ==
  /\ pc = "failed"
  /\ failedAt = "require_tables"
  /\ Len(error) = 2

\* C7 as stated: zeroDiv holds the division sites this run evaluated with a zero
\* denominator; no division is ever evaluated with one.
C7_NoZeroDenominator == zeroDiv = {}

\* the derived tables a call reads that it does not itself create
CallReads(call) == (UNION {Reads(t) : t \in Owns(call)} \cap DerivedTables) \ Owns(call)

\* C8: a call of main is reached only when this run has rebuilt every derived table the
\* call reads, a table a call creates is read only by later statements of the call, and
\* export_csvs is reached only when all nine tables are rebuilt.
C8_DependencyOrder ==
  /\ \A i \in 3..8 : pc = MainOrder[i] => CallReads(MainOrder[i]) \subseteq rebuilt
  /\ \A c \in {MainOrder[i] : i \in 3..8} : \A i \in 1..Len(Script(c)) :
       Script(c)[i].op = "create" =>
         \A t \in Reads(Script(c)[i].t) \cap Owns(c) :
           \E j \in 1..(i - 1) : Script(c)[j] = Create(t)
  /\ pc = "export_csvs" => rebuilt = DerivedTables

\* a second run reaches build_finals with the tables it reads rebuilt in that run
C8_Witness ==
  /\ pc = "build_finals"
  /\ run = 2
  /\ {"vendor_summary_by_vendor", "brand_pricing_opportunities", "vendor_sales_summary"}
       \subseteq rebuilt
  /\ "final_all" \in have

\* C9 as stated: when a build call fails, the tables it owns are all rebuilt or all
\* absent: none holds the rows of a previous run, none is rebuilt beside one that is not.
C9_StageIsAtomic ==
  (pc = "failed" /\ failedAt \in {MainOrder[i] : i \in 3..8}) =>
    \/ Owns(failedAt) \subseteq rebuilt
    \/ Owns(failedAt) \cap have = {}

\* the rows of sales whose InventoryId occurs in purchases
MatchedSales ==
  {i \in 1..Len(sales) : \E j \in 1..Len(purchases) :
     purchases[j].InventoryId = sales[i].InventoryId}

\* C10 as stated: once vendor_sales_summary is built, its TotalSalesDollars and
\* TotalSalesQuantity sum to the SalesDollars and SalesQuantity of the sales rows whose
\* InventoryId occurs in purchases.
C10_SalesCountedOnce ==
  SummaryBuilt =>
    /\ SumNonNull([x \in Summary |-> x[1].TotalSalesDollars], Summary) =
         Rat(SumInt([i \in MatchedSales |-> sales[i].SalesDollars], MatchedSales))
    /\ SumNonNull([x \in Summary |-> x[1].TotalSalesQuantity], Summary) =
         Rat(SumInt([i \in MatchedSales |-> sales[i].SalesQuantity], MatchedSales))

====
